---- MODULE Spec2Model ----
(***************************************************************************)
(* Model of scrape_dotabuff.py: the pipeline main() = fetch_dotabuff_matches *)
(* (page count resolver, page fetcher with an on-disk cache) followed by    *)
(* parse_dotabuff_matches over every cached file and the sorted csv.        *)
(*                                                                         *)
(* The remote site is the environment: a player with siteM matches, listed  *)
(* newest first, PageSize per page.  An html document is represented by     *)
(* what the site rendered ([kind, m, k]: which variant of the page, for     *)
(* which history length, which page counted from the first); Tables(html)   *)
(* is the structure BeautifulSoup finds in it.                              *)
(***************************************************************************)
EXTENDS Integers, Sequences, FiniteSets

\* Bounds of the model.
MaxMatches == 5
PageSize == 2

VARIABLES
    siteM,              \* environment: matches in the player's history
    cache,              \* cache_dir: page number (file stem) -> file content
    output,             \* output_csv: sequence of rows, << >> when never written
    pc,                 \* position of the process: idle/resolve/loop/write/parse
    lastExit,           \* how the last run ended
    total_pages,        \* fetch_dotabuff_matches local
    page_nums_loaded,   \* fetch_dotabuff_matches local
    page_nums_to_load,  \* fetch_dotabuff_matches local (what is left of it)
    page_num,           \* loop variable of the fetch loop
    page,               \* bytes returned by fetch_dotabuff_match_page
    data,               \* main local
    parsed,             \* files of cache_dir.glob already visited by main
    html_file,          \* main local: the file visited last
    table_parsed,       \* main local: result of the last parse
    http,               \* log: the page numbers requested over HTTP in this run
    last_page,          \* log: the last-page href this run's resolver was served
    cache0,             \* history: the cache when the run started
    output0             \* history: the output when the run started

vars == <<siteM, cache, output, pc, lastExit, total_pages, page_nums_loaded,
          page_nums_to_load, page_num, page, data, parsed, html_file,
          table_parsed, http, last_page, cache0, output0>>

fetchLocals == <<total_pages, page_nums_loaded, page_nums_to_load, page_num, page>>
mainLocals == <<data, parsed, html_file, table_parsed>>

(***************************************************************************)
(* The site.                                                               *)
(***************************************************************************)
\* Number of pages of a history of m matches.
NumPages(m) == (m + PageSize - 1) \div PageSize

\* The datetime attribute the site shows for match m (two matches can share one).
SiteTimestamp(m) == (m + 1) \div 2

\* Match ids on page k (counted from the first page) of a history of m, newest first.
SitePageMatches(m, k) ==
    LET hi == m - (k - 1) * PageSize
        lo == IF hi - PageSize + 1 < 1 THEN 1 ELSE hi - PageSize + 1
    IN  [i \in 1..(IF hi < lo THEN 0 ELSE hi - lo + 1) |-> hi - i + 1]

\* Variants of a response body: the plain matches page; one with a one-cell
\* decoration row; one with a row of too few cells; one with a small auxiliary
\* table before the matches table; one with no table at all.
Kinds == {"plain", "spacer", "short", "aux", "notable"}

\* A file that was created and holds no bytes.
EmptyFile == [kind |-> "empty", m |-> 0, k |-> 0]

\* r.content of a GET for page k.
Response(kind, m, k) == [kind |-> kind, m |-> m, k |-> k]

\* The href of the last-page link on page 1: with a page parameter or without.
LastPageLinks(m) == {[hasPage |-> TRUE, page |-> NumPages(m)],
                     [hasPage |-> FALSE, page |-> 0]}

\* No link seen yet.
NoLink == [hasPage |-> FALSE, page |-> -1]

(***************************************************************************)
(* BeautifulSoup's view of a document.                                      *)
(***************************************************************************)
MatchRow(m) == [cells |-> 8, match_id |-> m, timestamp |-> SiteTimestamp(m)]
SpacerRow == [cells |-> 1, match_id |-> 0, timestamp |-> 0]
ShortRow == [cells |-> 3, match_id |-> 0, timestamp |-> 0]
AuxRow == [cells |-> 2, match_id |-> 0, timestamp |-> 0]

MatchRows(html) ==
    LET ids == SitePageMatches(html.m, html.k)
    IN  [i \in 1..Len(ids) |-> MatchRow(ids[i])]

\* soup.find_all("table"): each table with the rows of contents[1].
Tables(html) ==
    LET rows == MatchRows(html)
    IN  CASE html.kind = "plain" -> << [rows |-> rows] >>
          [] html.kind = "spacer" ->
                << [rows |-> <<rows[1], SpacerRow>> \o Tail(rows)] >>
          [] html.kind = "short" -> << [rows |-> Append(rows, ShortRow)] >>
          [] html.kind = "aux" -> << [rows |-> <<AuxRow>>], [rows |-> rows] >>
          [] OTHER -> << >>

RECURSIVE SumCells(_)
SumCells(rows) ==
    IF rows = << >> THEN 0 ELSE Head(rows).cells + SumCells(Tail(rows))

\* len(x.text) of a table: every cell carries one character of text.
TextLen(table) == SumCells(table.rows)

\* max(tables, key=lambda x: len(x.text)): the first table of maximal text length.
MaxTable(tables) ==
    LET best == CHOOSE i \in 1..Len(tables) :
                    /\ \A j \in 1..Len(tables) : TextLen(tables[j]) <= TextLen(tables[i])
                    /\ \A j \in 1..(i - 1) : TextLen(tables[j]) < TextLen(tables[i])
    IN  tables[best]

(***************************************************************************)
(* parse_dotabuff_matches.                                                 *)
(***************************************************************************)
\* dict(): a record with no column.
EmptyDict == [empty |-> TRUE]
IndexError == [error |-> "IndexError"]

IsError(r) == "error" \in DOMAIN r
HasTimestamp(r) == "timestamp" \in DOMAIN r

parse_row(row) ==
    IF row.cells <= 1 THEN EmptyDict
    ELSE IF row.cells < 8 THEN IndexError
    ELSE [match_id |-> row.match_id, timestamp |-> row.timestamp]

\* Result: [ok |-> TRUE, val |-> list] or [ok |-> FALSE, val |-> << >>].
parse_dotabuff_matches(html) ==
    LET tables == Tables(html)
    IN  IF Len(tables) = 0 THEN [ok |-> TRUE, val |-> << >>]
        ELSE LET table_rows == MaxTable(tables).rows
                 recs == [i \in 1..Len(table_rows) |-> parse_row(table_rows[i])]
             IN  IF \E i \in 1..Len(recs) : IsError(recs[i])
                 THEN [ok |-> FALSE, val |-> << >>]
                 ELSE [ok |-> TRUE, val |-> recs]

(***************************************************************************)
(* pd.DataFrame(data).convert_dtypes().sort_values("timestamp",             *)
(* ascending=False): rows with a timestamp in descending order, rows        *)
(* without one (NaN) last.                                                  *)
(***************************************************************************)
\* Variant of Before: ascending=True.
Before_Ascending(a, b) ==
    IF ~HasTimestamp(a) THEN FALSE
    ELSE IF ~HasTimestamp(b) THEN TRUE
    ELSE a.timestamp <= b.timestamp

\* Whether row a stays before row b.
Before(a, b) ==
    IF ~HasTimestamp(a) THEN FALSE
    ELSE IF ~HasTimestamp(b) THEN TRUE
    ELSE a.timestamp >= b.timestamp

RECURSIVE Insert(_, _)
Insert(r, s) ==
    IF s = << >> THEN <<r>>
    ELSE IF Before(Head(s), r) THEN <<Head(s)>> \o Insert(r, Tail(s))
    ELSE <<r>> \o s

RECURSIVE sort_values(_)
sort_values(d) ==
    IF d = << >> THEN << >> ELSE Insert(Head(d), sort_values(Tail(d)))

\* The frame has a "timestamp" column iff some dict has the key.
HasTimestampColumn(d) == \E i \in 1..Len(d) : HasTimestamp(d[i])

(***************************************************************************)
(* The process.                                                            *)
(***************************************************************************)
NoPage == 0

\* Variant of fetch_total_num_pages: a failed regex falls back to one page.
fetch_total_num_pages_Default(href) ==
    IF href.hasPage THEN [ok |-> TRUE, val |-> href.page]
    ELSE [ok |-> TRUE, val |-> 1]

\* fetch_total_num_pages on the href: the regex finds the number, or the
\* AttributeError becomes the "Failed regex" exception.
fetch_total_num_pages(href) ==
    IF href.hasPage THEN [ok |-> TRUE, val |-> href.page]
    ELSE [ok |-> FALSE, val |-> 0]

\* Variant of PageNums: range(total_pages - 1, 0, -1).
PageNums_OffByOne(total) == 1..(total - 1)

\* list(range(total_pages, 0, -1)), as the set of its elements.
PageNums(total) == 1..total

\* Variant of PageNumsToLoad: the loaded pages are not subtracted.
PageNumsToLoad_All(nums, loaded) == nums

\* list(set(page_nums) - set(page_nums_loaded))
PageNumsToLoad(nums, loaded) == nums \ loaded

\* cache_dir.glob("*.html"), by file stem.
Glob(dir) == DOMAIN dir

\* Variant of to_csv: mode="a", the frame is appended to the file.
to_csv_Append(old, frame) == old \o frame

\* to_csv(output_csv, index=False): the file is replaced by the frame.
to_csv(old, frame) == frame

Init ==
    /\ siteM = 1
    /\ cache = [p \in {} |-> EmptyFile]
    /\ output = << >>
    /\ pc = "idle"
    /\ lastExit = "none"
    /\ total_pages = 0
    /\ page_nums_loaded = {}
    /\ page_nums_to_load = {}
    /\ page_num = NoPage
    /\ page = EmptyFile
    /\ data = << >>
    /\ parsed = {}
    /\ html_file = NoPage
    /\ table_parsed = << >>
    /\ http = << >>
    /\ last_page = NoLink
    /\ cache0 = cache
    /\ output0 = output

\* The process ends: its locals are gone.
Exit(status) ==
    /\ pc' = "idle"
    /\ lastExit' = status
    /\ total_pages' = 0
    /\ page_nums_loaded' = {}
    /\ page_nums_to_load' = {}
    /\ page_num' = NoPage
    /\ page' = EmptyFile
    /\ data' = << >>
    /\ parsed' = {}
    /\ html_file' = NoPage
    /\ table_parsed' = << >>

\* The player plays one more match (between two runs of the script).
PlayMatch ==
    /\ pc = "idle"
    /\ siteM < MaxMatches
    /\ siteM' = siteM + 1
    /\ UNCHANGED <<cache, output, pc, lastExit, fetchLocals, mainLocals,
                   http, last_page, cache0, output0>>

\* python scrape_dotabuff.py -i player_id
Start ==
    /\ pc = "idle"
    /\ pc' = "resolve"
    /\ lastExit' = "running"
    /\ http' = << >>
    /\ last_page' = NoLink
    /\ cache0' = cache
    /\ output0' = output
    /\ UNCHANGED <<siteM, cache, output, fetchLocals, mainLocals>>

\* fetch_total_num_pages, then the two page lists of fetch_dotabuff_matches.
Resolve ==
    /\ pc = "resolve"
    /\ http' = Append(http, 1)
    /\ UNCHANGED <<siteM, cache, output, cache0, output0>>
    /\ \E href \in LastPageLinks(siteM) :
          LET num_pages == fetch_total_num_pages(href)
          IN  /\ last_page' = href
              /\ IF num_pages.ok
                 THEN /\ total_pages' = num_pages.val
                      /\ page_nums_loaded' = Glob(cache)
                      /\ page_nums_to_load' =
                             PageNumsToLoad(PageNums(num_pages.val), Glob(cache))
                      /\ pc' = "loop"
                      /\ UNCHANGED <<lastExit, page_num, page, mainLocals>>
                 ELSE Exit("pagination")

\* One iteration up to open(..., "wb"): the GET, then the file is created empty.
FetchPage ==
    /\ pc = "loop"
    /\ \E p \in page_nums_to_load, kind \in Kinds :
          LET page_num_from_first == total_pages - p + 1
          IN  /\ page_num' = p
              /\ http' = Append(http, page_num_from_first)
              /\ page' = Response(kind, siteM, page_num_from_first)
              /\ cache' = [q \in DOMAIN cache \cup {p} |->
                              IF q = p THEN EmptyFile ELSE cache[q]]
    /\ pc' = "write"
    /\ UNCHANGED <<siteM, output, lastExit, total_pages, page_nums_loaded,
                   page_nums_to_load, mainLocals, last_page, cache0, output0>>

\* f.write(page), the file is closed, sleep, next iteration.
WritePage ==
    /\ pc = "write"
    /\ cache' = [cache EXCEPT ![page_num] = page]
    /\ page_nums_to_load' = page_nums_to_load \ {page_num}
    /\ pc' = "loop"
    /\ UNCHANGED <<siteM, output, lastExit, total_pages, page_nums_loaded,
                   page_num, page, mainLocals, http, last_page, cache0, output0>>

\* The loop is exhausted: print("Done."), back in main.
FetchDone ==
    /\ pc = "loop"
    /\ page_nums_to_load = {}
    /\ pc' = "parse"
    /\ UNCHANGED <<siteM, cache, output, lastExit, fetchLocals, mainLocals,
                   http, last_page, cache0, output0>>

\* requests.get raises: the exception ends the run.
NetworkFailure ==
    /\ \/ pc = "resolve" /\ http' = Append(http, 1)
       \/ /\ pc = "loop"
          /\ \E p \in page_nums_to_load :
                http' = Append(http, total_pages - p + 1)
    /\ Exit("network")
    /\ UNCHANGED <<siteM, cache, output, last_page, cache0, output0>>

\* The process is killed during the fetch stage.
Interrupt ==
    /\ pc \in {"resolve", "loop", "write"}
    /\ Exit("interrupted")
    /\ UNCHANGED <<siteM, cache, output, http, last_page, cache0, output0>>

\* One iteration of main's loop over cache_dir.glob("*.html").
ParseFile ==
    /\ pc = "parse"
    /\ \E f \in Glob(cache) \ parsed :
          LET res == parse_dotabuff_matches(cache[f])
          IN  IF res.ok
              THEN /\ html_file' = f
                   /\ table_parsed' = res.val
                   /\ data' = data \o res.val
                   /\ parsed' = parsed \cup {f}
                   /\ UNCHANGED <<pc, lastExit, fetchLocals>>
              ELSE Exit("IndexError")
    /\ UNCHANGED <<siteM, cache, output, http, last_page, cache0, output0>>

\* DataFrame, sort_values, to_csv.
Save ==
    /\ pc = "parse"
    /\ parsed = Glob(cache)
    /\ IF HasTimestampColumn(data)
       THEN /\ output' = to_csv(output, sort_values(data))
            /\ Exit("ok")
       ELSE /\ Exit("KeyError")
            /\ UNCHANGED output
    /\ UNCHANGED <<siteM, cache, http, last_page, cache0, output0>>

Next ==
    \/ PlayMatch
    \/ Start
    \/ Resolve
    \/ FetchPage
    \/ WritePage
    \/ FetchDone
    \/ NetworkFailure
    \/ Interrupt
    \/ ParseFile
    \/ Save

Spec == Init /\ [][Next]_vars

(***************************************************************************)
(* Helpers of the properties.                                              *)
(***************************************************************************)
\* The fetch stage of the current run has completed.
FetchStageDone == pc = "parse"

\* The cache page numbers the fetch loop requested, in order (the first
\* request of a run is the resolver's).
FetchedPageNums ==
    [i \in 1..(Len(http) - 1) |-> total_pages - http[i + 1] + 1]

\* Every number of 1..total_pages was a cache entry when the run started.
AllCachedAtStart == \A p \in 1..total_pages : p \in DOMAIN cache0

\* Occurrences of x in the sequence s.
RECURSIVE Count(_, _)
Count(s, x) ==
    IF s = << >> THEN 0
    ELSE (IF Head(s) = x THEN 1 ELSE 0) + Count(Tail(s), x)

\* Occurrences of x in the lists extracted from the files ps of the cache.
RECURSIVE CountInPages(_, _)
CountInPages(ps, x) ==
    IF ps = {} THEN 0
    ELSE LET p == CHOOSE q \in ps : TRUE
         IN  Count(parse_dotabuff_matches(cache[p]).val, x)
                + CountInPages(ps \ {p}, x)

\* Every record a page of the site can yield, and the empty dict.
AllRecords ==
    {[match_id |-> m, timestamp |-> SiteTimestamp(m)] : m \in 1..MaxMatches}
        \cup {EmptyDict}

\* The data rows of the matches table of a document, and those of at most one cell.
DataRows(html) ==
    IF Tables(html) = << >> THEN << >> ELSE MaxTable(Tables(html)).rows
NumShortRows(html) ==
    Cardinality({i \in 1..Len(DataRows(html)) : DataRows(html)[i].cells <= 1})

\* The file holds a page as the site lists it (not an empty file, not a
\* document without the table or with a broken row).
Faithful(html) == html.kind \in {"plain", "spacer", "aux"}

\* Occurrences of match m in the cached pages ps.
RECURSIVE MatchCount(_, _)
MatchCount(ps, m) ==
    IF ps = {} THEN 0
    ELSE LET p == CHOOSE q \in ps : TRUE
         IN  Count(SitePageMatches(cache[p].m, cache[p].k), m)
                + MatchCount(ps \ {p}, m)

(***************************************************************************)
(* Properties.                                                             *)
(***************************************************************************)

\* C1 (as stated): when every page number 1..total is cached at the start, the
\* completed fetch stage, page count resolver included, has issued zero HTTP
\* requests.
C1_ZeroRequests ==
    (FetchStageDone /\ AllCachedAtStart) => Len(http) = 0

\* C1 (amended): when every page number 1..total is cached at the start, the
\* completed fetch stage has issued exactly one HTTP request, the page count
\* resolver's request for page 1, and no request for a page to cache.
C1_OnlyResolverRequest ==
    (FetchStageDone /\ AllCachedAtStart) => (http = <<1>> /\ cache = cache0)

C1_Witness ==
    /\ FetchStageDone
    /\ total_pages >= 2
    /\ AllCachedAtStart
    /\ \A p \in 1..total_pages : cache0[p] # EmptyFile
    /\ http = <<1>>

\* C2: a fetch stage that runs to completion has fetched and stored exactly
\* the page numbers of 1..total that were no cache entries at its start, each
\* once, none that was cached, and then every number of 1..total is an entry.
C2_FetchesExactlyMissing ==
    FetchStageDone =>
        LET missing == (1..total_pages) \ DOMAIN cache0
        IN  /\ total_pages >= 1
            /\ {FetchedPageNums[i] : i \in 1..Len(FetchedPageNums)} = missing
            /\ Len(FetchedPageNums) = Cardinality(missing)
            /\ \A p \in missing :
                  /\ p \in DOMAIN cache
                  /\ cache[p].m = siteM
                  /\ cache[p].k = total_pages - p + 1
            /\ \A p \in 1..total_pages : p \in DOMAIN cache

C2_Witness ==
    /\ FetchStageDone
    /\ total_pages = 3
    /\ 2 \in DOMAIN cache0
    /\ Len(FetchedPageNums) = 2

\* C3: an interrupted run leaves only cache entries that hold the complete
\* content of their page, and a completed fetch stage leaves every number of
\* 1..total cached with the complete content of its page.
C3_Resumable ==
    /\ (pc = "idle" /\ lastExit = "interrupted") =>
            \A p \in DOMAIN cache : cache[p] # EmptyFile
    /\ FetchStageDone =>
            \A p \in 1..total_pages : p \in DOMAIN cache /\ cache[p] # EmptyFile

\* C4: whatever a run does and however it ends, every cache entry that
\* existed when the run started still exists with the content it had.
C4_AppendOnly ==
    \A p \in DOMAIN cache0 : p \in DOMAIN cache /\ cache[p] = cache0[p]

C4_Witness ==
    /\ pc = "idle"
    /\ lastExit = "network"
    /\ \E p \in DOMAIN cache0 : cache0[p] # EmptyFile
    /\ \E p \in DOMAIN cache \ DOMAIN cache0 : cache[p] # EmptyFile
    /\ C4_AppendOnly

\* C5: for a table of N data rows of which K have at most one cell,
\* parse_dotabuff_matches returns a list of exactly N - K elements.
C5_RowCount ==
    (pc = "parse" /\ html_file # NoPage) =>
        Len(table_parsed) =
            Len(DataRows(cache[html_file])) - NumShortRows(cache[html_file])

\* C6: the rows of the written output are in non-increasing order of
\* timestamp; a row without a timestamp (an empty field) comes after every
\* row with one.
C6_SortedDescending ==
    \A i \in 1..(Len(output) - 1) :
        /\ (HasTimestamp(output[i]) /\ HasTimestamp(output[i + 1]))
                => output[i].timestamp >= output[i + 1].timestamp
        /\ HasTimestamp(output[i + 1]) => HasTimestamp(output[i])

C6_Witness ==
    /\ lastExit = "ok"
    /\ Len(output) >= 4
    /\ output # output0
    /\ \E i \in 1..(Len(output) - 1) :
          /\ HasTimestamp(output[i]) /\ HasTimestamp(output[i + 1])
          /\ output[i].timestamp > output[i + 1].timestamp
    /\ \E i \in 1..Len(output) : ~HasTimestamp(output[i])

\* C7: when the page number cannot be located in the last-page link, the run
\* is over with the pagination error after the resolver's single request, no
\* cache entry was created and no output was written.
C7_PaginationFatal ==
    (last_page # NoLink /\ ~last_page.hasPage) =>
        /\ pc = "idle"
        /\ lastExit = "pagination"
        /\ http = <<1>>
        /\ cache = cache0
        /\ output = output0

C7_Witness ==
    /\ lastExit = "pagination"
    /\ last_page # NoLink
    /\ ~last_page.hasPage
    /\ DOMAIN cache # {}
    /\ output # << >>

\* C8: a cached page without a table parses to the empty list, and a run
\* over a cache in which every page has no table does not fail.
C8_NoTableNotAnError ==
    /\ \A p \in DOMAIN cache :
          Tables(cache[p]) = << >> =>
              parse_dotabuff_matches(cache[p]) = [ok |-> TRUE, val |-> << >>]
    /\ (pc = "idle" /\ lastExit = "KeyError") =>
          \E p \in DOMAIN cache : Tables(cache[p]) # << >>

\* C9: the output a run writes holds exactly the elements extracted from all
\* the pages in the cache at the end of its fetch stage, each as often as it
\* was extracted, and nothing else.
C9_RebuiltInFull ==
    (pc = "idle" /\ lastExit = "ok") =>
        \A r \in AllRecords \cup {output[i] : i \in 1..Len(output)} :
            Count(output, r) = CountInPages(DOMAIN cache, r)

C9_Witness ==
    /\ pc = "idle"
    /\ lastExit = "ok"
    /\ output0 # << >>
    /\ DOMAIN cache0 # {}
    /\ DOMAIN cache # DOMAIN cache0
    /\ Len(output) > Len(output0)

\* C10: once a run's fetch stage has completed over pages that hold what the
\* site listed, every match of the player's history is in the cached pages
\* exactly once.
C10_CompleteAcrossRuns ==
    (FetchStageDone /\ \A p \in DOMAIN cache : Faithful(cache[p])) =>
        \A m \in 1..siteM : MatchCount(DOMAIN cache, m) = 1

====
